---- MODULE Spec2Model ----
(***************************************************************************)
(* A model of net/utils/tgcn.py: the class ConvTemporalGraphical, its      *)
(* constructor, forward and learnable_matrix.                              *)
(*                                                                         *)
(* Tensors are nested functions over 0-based index ranges, so a tensor of  *)
(* shape (N, C, T, V) is t[n][c][t][v].  x and the parameters hold          *)
(* integers; A and everything computed after the division of line 77 hold  *)
(* exact rationals <<numerator, denominator>> in lowest terms.  Floating-   *)
(* point rounding is not modelled.  exp, which softmax applies and which    *)
(* has no rational values, is replaced by its first-order Taylor           *)
(* polynomial on the non-negative distance of an entry to the smallest     *)
(* entry of its slice (ExpTaylor1): positive, strictly increasing, 1 at 0. *)
(***************************************************************************)
EXTENDS Integers, Sequences, FiniteSets, TLC

(***************************************************************************)
(* Bounds of the model.                                                    *)
(***************************************************************************)
\* Batch sizes N, node counts V and sequence lengths T_in of an input x.
MaxN == 2
MaxV == 2
MaxT == 2
\* kernel_size K (and the leading dimension of A) and out_channels.
MaxK == 2
MaxCout == 2
\* in_channels of every unit.
MaxCin == 2
\* t_kernel_size, t_stride, t_padding and t_dilation.
MaxTKernel == 2
MaxStride == 2
MaxPad == 1
MaxDil == 2

\* The families the parameter and input tensors are drawn from.
ParamSeeds == {0, 1}
SampleSeeds == {0, 1}
AdjSeeds == {0, 1}

\* Defaults of the constructor's temporal hyperparameters.
DefaultTKernel == 1
DefaultTStride == 1
DefaultTPadding == 0
DefaultTDilation == 1

\* x.get_device() of a tensor in host memory.
CpuDevice == -1

Devices == {CpuDevice, 0}

(***************************************************************************)
(* Integer and rational arithmetic.                                        *)
(***************************************************************************)
Abs(i) == IF i < 0 THEN -i ELSE i

RECURSIVE GCD(_, _)
GCD(a, b) == IF b = 0 THEN a ELSE GCD(b, a % b)

Rat(n, d) ==
    LET g == GCD(Abs(n), d)
    IN  IF n = 0 THEN <<0, 1>> ELSE <<n \div g, d \div g>>

RatOfInt(i) == <<i, 1>>
RatAdd(a, b) == Rat(a[1] * b[2] + b[1] * a[2], a[2] * b[2])
RatSub(a, b) == Rat(a[1] * b[2] - b[1] * a[2], a[2] * b[2])
RatMul(a, b) == Rat(a[1] * b[1], a[2] * b[2])
RatDiv(a, b) == Rat(a[1] * b[2], a[2] * b[1])
RatLeq(a, b) == a[1] * b[2] <= b[1] * a[2]
RatPositive(a) == a[1] > 0

\* Sum of f[0] .. f[n-1].
RECURSIVE SumTo(_, _)
SumTo(f, n) == IF n = 0 THEN 0 ELSE f[n - 1] + SumTo(f, n - 1)

RECURSIVE RatSumTo(_, _)
RatSumTo(f, n) == IF n = 0 THEN <<0, 1>> ELSE RatAdd(f[n - 1], RatSumTo(f, n - 1))

\* The smallest of f[0] .. f[n-1], n >= 1.
RECURSIVE RatMinTo(_, _)
RatMinTo(f, n) ==
    IF n = 1 THEN f[0]
    ELSE LET m == RatMinTo(f, n - 1)
         IN  IF RatLeq(f[n - 1], m) THEN f[n - 1] ELSE m

(***************************************************************************)
(* Tensor shapes, storage order and views.                                 *)
(***************************************************************************)
Size(t) == Cardinality(DOMAIN t)

\* The row-major storage of a contiguous rank-4 tensor.
Flat4(t) ==
    LET d1 == Size(t[0])
        d2 == Size(t[0][0])
        d3 == Size(t[0][0][0])
    IN  [i \in 0 .. (Size(t) * d1 * d2 * d3 - 1) |->
            t[i \div (d1 * d2 * d3)][(i \div (d2 * d3)) % d1][(i \div d3) % d2][i % d3]]

\* tensor.view(d0, d1, d2) of the storage f.
View3(f, d0, d1, d2) ==
    [a \in 0 .. d0 - 1 |-> [b \in 0 .. d1 - 1 |-> [c \in 0 .. d2 - 1 |->
        f[(a * d1 + b) * d2 + c]]]]

\* tensor.view(d0, d1, d2, d3, d4) of the storage f.
View5(f, d0, d1, d2, d3, d4) ==
    [a \in 0 .. d0 - 1 |-> [b \in 0 .. d1 - 1 |-> [c \in 0 .. d2 - 1 |->
        [d \in 0 .. d3 - 1 |-> [e \in 0 .. d4 - 1 |->
            f[(((a * d1 + b) * d2 + c) * d3 + d) * d4 + e]]]]]]

\* tensor.permute(0, 3, 1, 2).contiguous() of a rank-4 tensor.
Permute0312(t) ==
    [n \in DOMAIN t |-> [v \in DOMAIN t[0][0][0] |-> [c \in DOMAIN t[0] |->
        [tt \in DOMAIN t[0][0] |-> t[n][c][tt][v]]]]]

(***************************************************************************)
(* Families of tensors: entry i (in storage order) of the tensor of a      *)
(* seed.  Values lie in -1 .. 1.                                           *)
(***************************************************************************)
Gen(seed, i) == (((i + 1) * (seed + 2) + (i \div 3)) % 3) - 1

\* One sample of shape (C, T, V).
Sample(seed, C, T, V) ==
    [c \in 0 .. C - 1 |-> [tt \in 0 .. T - 1 |-> [v \in 0 .. V - 1 |->
        Gen(seed, (c * T + tt) * V + v)]]]

\* An adjacency tensor of shape (K, V, V), entries 0, 1 or 2 (as rationals).
Adjacency(seed, K, V) ==
    [k \in 0 .. K - 1 |-> [v \in 0 .. V - 1 |-> [w \in 0 .. V - 1 |->
        <<Gen(seed, (k * V + v) * V + w + 1) + 1, 1>>]]]

(***************************************************************************)
(* torch.nn.Conv2d with kernel (t_kernel_size, 1): a record of the weight  *)
(* weight[o][ci][j], the bias bias[o] (zeros when bias=False) and the      *)
(* stride, padding and dilation along the time axis.                       *)
(***************************************************************************)
Conv2d(cin, cout, tk, ts, tp, td, hasBias, seed) ==
    [weight   |-> [o \in 0 .. cout - 1 |-> [ci \in 0 .. cin - 1 |-> [j \in 0 .. tk - 1 |->
                      Gen(seed, (o * cin + ci) * tk + j)]]],
     bias     |-> [o \in 0 .. cout - 1 |-> IF hasBias THEN Gen(seed + 1, o) ELSE 0],
     has_bias |-> hasBias,
     stride   |-> ts,
     padding  |-> tp,
     dilation |-> td]

\* As ConvPositions, with the kernel's extent taken without the dilation.
ConvPositionsUndilated(m, T) ==
    {p \in 0 .. (T + 2 * m.padding - 1) :
        p * m.stride + (Size(m.weight[0][0]) - 1) <= T + 2 * m.padding - 1}

\* The window positions of the convolution m over T time steps: position p
\* covers the padded steps p*stride, p*stride + dilation, ...; it exists when
\* its last step lies inside the padded input.
ConvPositions(m, T) ==
    {p \in 0 .. (T + 2 * m.padding - 1) :
        p * m.stride + m.dilation * (Size(m.weight[0][0]) - 1) <= T + 2 * m.padding - 1}

\* The input at time step tt of the zero-padded time axis.
Padded(x, n, ci, tt, v) == IF tt \in DOMAIN x[n][ci] THEN x[n][ci][tt][v] ELSE 0

\* m(x) for x of shape (N, C_in, T, V): shape (N, C_out', T_out, V).
ConvApply(m, x) ==
    LET cin == Size(m.weight[0])
        tk  == Size(m.weight[0][0])
        tout == Cardinality(ConvPositions(m, Size(x[0][0])))
    IN  [n \in DOMAIN x |-> [o \in DOMAIN m.weight |-> [p \in 0 .. tout - 1 |->
            [v \in DOMAIN x[0][0][0] |->
                m.bias[o]
                + SumTo([ci \in 0 .. cin - 1 |->
                      SumTo([j \in 0 .. tk - 1 |->
                          m.weight[o][ci][j]
                          * Padded(x, n, ci, p * m.stride + j * m.dilation - m.padding, v)],
                        tk)],
                    cin)]]]]

(***************************************************************************)
(* learnable_matrix, lines 72-87.                                          *)
(***************************************************************************)
\* Line 75: A1 of shape (N, V, out_channels*T).
ProjectionA(ca, oc, x) ==
    View3(Flat4(Permute0312(ConvApply(ca, x))),
          Size(x), Size(x[0][0][0]), oc * Size(x[0][0]))

\* Line 76: A2 of shape (N, out_channels*T, V).
ProjectionB(cb, oc, x) ==
    View3(Flat4(ConvApply(cb, x)),
          Size(x), oc * Size(x[0][0]), Size(x[0][0][0]))

\* Line 77: torch.matmul(A1, A2) / A1.size(-1), shape (N, V, V).
ConcatMatrix(A1, A2) ==
    LET len == Size(A1[0][0])
    IN  [n \in DOMAIN A1 |-> [v \in DOMAIN A1[n] |-> [w \in DOMAIN A2[n][0] |->
            Rat(SumTo([j \in 0 .. len - 1 |-> A1[n][v][j] * A2[n][j][w]], len), len)]]]

\* Line 78: torch.ones(A.size()).
Ones(A) ==
    [k \in DOMAIN A |-> [v \in DOMAIN A[k] |-> [w \in DOMAIN A[k][v] |-> <<1, 1>>]]]

\* Lines 81-82: result[i] = concat_matrix[0] for i in range(n).
RECURSIVE FillSlots(_, _, _)
FillSlots(r, cm, n) ==
    IF n = 0 THEN r ELSE [FillSlots(r, cm, n - 1) EXCEPT ![n - 1] = cm[0]]

\* As BuildResult, filling the slots from the last sample of the batch.
BuildResultLastSample(cm, A, N) ==
    IF N >= 2 THEN FillSlots(Ones(A), [i \in {0} |-> cm[N - 1]], Size(A)) ELSE cm

\* Lines 78-84.
BuildResult(cm, A, N) ==
    IF N >= 2 THEN FillSlots(Ones(A), cm, Size(A)) ELSE cm

\* exp on the distance d >= 0 of an entry to the smallest entry of its slice.
ExpTaylor1(d) == RatAdd(<<1, 1>>, d)

\* softmax of the values f[0] .. f[n-1].
Softmax1D(f, n) ==
    LET lo == RatMinTo(f, n)
        e  == [i \in 0 .. n - 1 |-> ExpTaylor1(RatSub(f[i], lo))]
        s  == RatSumTo(e, n)
    IN  [i \in 0 .. n - 1 |-> RatDiv(e[i], s)]

\* r.softmax(dim=1) of a rank-3 tensor: a new tensor, r is not written.
SoftmaxDim1(r) ==
    [k \in DOMAIN r |->
        LET V1 == Size(r[k])
            col == [w \in DOMAIN r[k][0] |-> Softmax1D([v \in 0 .. V1 - 1 |-> r[k][v][w]], V1)]
        IN  [v \in DOMAIN r[k] |-> [w \in DOMAIN r[k][v] |-> col[w][v]]]]

\* r.softmax(dim=2) of a rank-3 tensor.
SoftmaxDim2(r) ==
    [k \in DOMAIN r |-> [v \in DOMAIN r[k] |-> Softmax1D(r[k][v], Size(r[k][v]))]]

\* As FinalSoftmax, returning the softmax along dim 1.
FinalSoftmaxDim1(r) == SoftmaxDim1(r)

\* As FinalSoftmax, with line 86 assigned: result = result.softmax(dim=1).
FinalSoftmaxRowThenColumn(r) == SoftmaxDim2(SoftmaxDim1(r))

\* Line 86 computes result.softmax(dim=1) and drops it; line 87 returns
\* result.softmax(dim=2).
FinalSoftmax(r) ==
    LET dropped == SoftmaxDim1(r)
    IN  SoftmaxDim2(r)

\* As CudaOk, with a negative index taken for the current accelerator.
CudaAlwaysOk(device) == TRUE

\* tensor.cuda(device) succeeds for the index of an accelerator and raises
\* for a negative one ("Device index must not be negative").
CudaOk(device) == device >= 0

\* learnable_matrix as a function of the parameters and the inputs (the value
\* before the transfer of line 87).
LearnableMatrix(ca, cb, oc, x, A) ==
    FinalSoftmax(BuildResult(ConcatMatrix(ProjectionA(ca, oc, x), ProjectionB(cb, oc, x)),
                             A, Size(x)))

(***************************************************************************)
(* forward, lines 60-70.                                                   *)
(***************************************************************************)
\* As ViewKernel, with the output channel varying slower than the kernel
\* partition: x.view(n, kc//kernel_size, kernel_size, t, v).transpose(1, 2).
ViewKernelChannelMajor(xc, K) ==
    LET C  == Size(xc[0]) \div K
        v5 == View5(Flat4(xc), Size(xc), C, K, Size(xc[0][0]), Size(xc[0][0][0]))
    IN  [n \in DOMAIN xc |-> [k \in 0 .. K - 1 |-> [c \in 0 .. C - 1 |-> v5[n][c][k]]]]

\* Line 67: x.view(n, kernel_size, kc//kernel_size, t, v).
ViewKernel(xc, K) ==
    View5(Flat4(xc), Size(xc), K, Size(xc[0]) \div K, Size(xc[0][0]), Size(xc[0][0][0]))

\* As AddBroadcast, with M left out.
AddWithoutM(A, M) == A

\* Line 68: A + M, M broadcast along a leading axis of size 1.
AddBroadcast(A, M) ==
    [k \in DOMAIN A |-> [v \in DOMAIN A[k] |-> [w \in DOMAIN A[k][v] |->
        RatAdd(A[k][v][w], M[IF Size(M) = 1 THEN 0 ELSE k][v][w])]]]

\* Line 68: torch.einsum('nkctv,kvw->nctw', (x5, AM)).
Einsum(x5, AM) ==
    LET K == Size(x5[0])
        V == Size(AM[0])
    IN  [n \in DOMAIN x5 |-> [c \in DOMAIN x5[0][0] |-> [tt \in DOMAIN x5[0][0][0] |->
            [w \in DOMAIN AM[0][0] |->
                RatSumTo([k \in 0 .. K - 1 |->
                    RatSumTo([v \in 0 .. V - 1 |->
                        RatMul(RatOfInt(x5[n][k][c][tt][v]), AM[k][v][w])], V)], K)]]]]

(***************************************************************************)
(* The state: one ConvTemporalGraphical instance and the forward call in   *)
(* progress on it.                                                         *)
(***************************************************************************)
VARIABLES
    kernel_size,    \* self.kernel_size
    out_channels,   \* self.out_channels
    conv,           \* self.conv
    conv_a,         \* self.conv_a
    conv_b,         \* self.conv_b
    pc,             \* the line forward has reached
    x,              \* the caller's input tensor
    A,              \* the caller's adjacency tensor
    device,         \* x.get_device()
    concat_matrix,  \* learnable_matrix's local, line 77
    result,         \* learnable_matrix's local, lines 78-84
    M,              \* forward's local, line 63
    xc,             \* forward's x after line 64
    y,              \* forward's x after line 68
    ret,            \* the pair forward returned
    err,            \* the exception forward raised
    trace,          \* the tensor operations the call has executed, in order
    A_call,         \* A as it was when forward was entered
    module_call,    \* the unit's attributes as they were when forward was entered
    memo            \* <<>>, or <<r>> for the call r the caller remembers: what
                    \* forward was given, its outcome, and what ran since

vars == <<kernel_size, out_channels, conv, conv_a, conv_b, pc, x, A, device,
          concat_matrix, result, M, xc, y, ret, err, trace, A_call,
          module_call, memo>>

module == <<kernel_size, out_channels, conv, conv_a, conv_b>>
locals == <<concat_matrix, result, M, xc, y>>

None == <<>>

\* __init__, lines 36-58.
Construct(cin, cout, K, tk, ts, tp, td, hasBias, seed) ==
    /\ kernel_size = K
    /\ conv = Conv2d(cin, cout * K, tk, ts, tp, td, hasBias, seed)
    /\ out_channels = cout
    /\ conv_a = Conv2d(cin, cout, 1, 1, 0, 1, TRUE, seed + 1)
    /\ conv_b = Conv2d(cin, cout, 1, 1, 0, 1, TRUE, seed + 2)
    /\ pc = "idle"
    /\ x = None /\ A = None /\ device = CpuDevice
    /\ concat_matrix = None /\ result = None /\ M = None /\ xc = None /\ y = None
    /\ ret = None /\ err = "" /\ trace = <<>> /\ A_call = None
    /\ module_call = None
    /\ memo = <<>>

\* A caller enters forward(x, A), line 60, with x of shape (N, C_in, T, V) on
\* the given device and A of shape (Ka, V, V).
Call(N, T, V, Ka, xs, as, d) ==
    /\ pc = "idle"
    /\ pc' = "assert"
    /\ x' = [n \in 0 .. N - 1 |-> Sample(xs[n], Size(conv.weight[0]), T, V)]
    /\ A' = Adjacency(as, Ka, V)
    /\ A_call' = Adjacency(as, Ka, V)
    /\ module_call' = module
    /\ device' = d
    /\ concat_matrix' = None /\ result' = None /\ M' = None /\ xc' = None /\ y' = None
    /\ ret' = None /\ err' = "" /\ trace' = <<>>
    /\ memo' = IF memo = <<>> THEN memo
               ELSE <<[memo[1] EXCEPT !.since = @ \cup {"call"}]>>
    /\ UNCHANGED module

\* As AssertKernelSize, with the assertion compiled away.
AssertSkipped ==
    /\ pc = "assert"
    /\ pc' = "learnable_matrix"
    /\ UNCHANGED <<module, x, A, device, locals, ret, err, trace, A_call, module_call, memo>>

\* Line 61.
AssertKernelSize ==
    /\ pc = "assert"
    /\ IF Size(A) = kernel_size
       THEN pc' = "learnable_matrix" /\ err' = err
       ELSE pc' = "raised" /\ err' = "AssertionError"
    /\ UNCHANGED <<module, x, A, device, locals, ret, trace, A_call, module_call, memo>>

\* Lines 73-77.
Project ==
    /\ pc = "learnable_matrix"
    /\ concat_matrix' = ConcatMatrix(ProjectionA(conv_a, out_channels, x),
                                     ProjectionB(conv_b, out_channels, x))
    /\ trace' = trace \o <<"conv_a", "conv_b", "matmul">>
    /\ pc' = "build_result"
    /\ UNCHANGED <<module, x, A, device, result, M, xc, y, ret, err, A_call, module_call, memo>>

\* Lines 78-84.
Build ==
    /\ pc = "build_result"
    /\ result' = BuildResult(concat_matrix, A, Size(x))
    /\ pc' = "softmax"
    /\ UNCHANGED <<module, x, A, device, concat_matrix, M, xc, y, ret, err, trace,
                   A_call, module_call, memo>>

\* Lines 86-87 and the assignment of line 63.
SoftmaxAndTransfer ==
    /\ pc = "softmax"
    /\ IF CudaOk(device)
       THEN /\ M' = FinalSoftmax(result)
            /\ trace' = trace \o <<"softmax", "softmax", "cuda">>
            /\ pc' = "conv" /\ err' = err
       ELSE /\ M' = M
            /\ trace' = trace \o <<"softmax", "softmax">>
            /\ pc' = "raised" /\ err' = "RuntimeError"
    /\ UNCHANGED <<module, x, A, device, concat_matrix, result, xc, y, ret, A_call, module_call, memo>>

\* Line 64.  Conv2d raises when no window fits the padded input.
TemporalConv ==
    /\ pc = "conv"
    /\ IF ConvPositions(conv, Size(x[0][0])) # {}
       THEN /\ xc' = ConvApply(conv, x)
            /\ trace' = trace \o <<"conv">>
            /\ pc' = "aggregate" /\ err' = err
       ELSE /\ xc' = xc /\ trace' = trace
            /\ pc' = "raised" /\ err' = "RuntimeError"
    /\ UNCHANGED <<module, x, A, device, concat_matrix, result, M, y, ret, A_call, module_call, memo>>

\* As Aggregate, with the sum formed in place: A += M.
AggregateInPlace ==
    /\ pc = "aggregate"
    /\ A' = AddBroadcast(A, M)
    /\ y' = Einsum(ViewKernel(xc, kernel_size), AddBroadcast(A, M))
    /\ trace' = trace \o <<"add", "einsum">>
    /\ pc' = "return"
    /\ UNCHANGED <<module, x, device, concat_matrix, result, M, xc, ret, err,
                   A_call, module_call, memo>>

\* Lines 66-68.
Aggregate ==
    /\ pc = "aggregate"
    /\ y' = Einsum(ViewKernel(xc, kernel_size), AddBroadcast(A, M))
    /\ trace' = trace \o <<"add", "einsum">>
    /\ pc' = "return"
    /\ UNCHANGED <<module, x, A, device, concat_matrix, result, M, xc, ret, err,
                   A_call, module_call, memo>>

\* As Return, with forward keeping a running sum in the convolution's bias.
ReturnStateful ==
    /\ pc = "return"
    /\ ret' = <<y, A>>
    /\ conv' = [conv EXCEPT !.bias = [o \in DOMAIN conv.bias |-> conv.bias[o] + 1]]
    /\ pc' = "done"
    /\ UNCHANGED <<kernel_size, out_channels, conv_a, conv_b, x, A, device, locals, err,
                   trace, A_call, module_call, memo>>

\* Line 70.
Return ==
    /\ pc = "return"
    /\ ret' = <<y, A>>
    /\ pc' = "done"
    /\ UNCHANGED <<module, x, A, device, locals, err, trace, A_call, module_call, memo>>

\* The caller has taken the pair or the exception; the call's tensors are gone.
Finish ==
    /\ pc \in {"done", "raised"}
    /\ pc' = "idle"
    /\ x' = None /\ A' = None /\ device' = CpuDevice
    /\ concat_matrix' = None /\ result' = None /\ M' = None /\ xc' = None /\ y' = None
    /\ ret' = None /\ err' = "" /\ trace' = <<>> /\ A_call' = None
    /\ module_call' = None
    /\ UNCHANGED <<module, memo>>

\* Between calls an optimizer outside the unit gives the three convolutions
\* new weights and biases; their shapes and hyperparameters stay.
OptimizerStep(seed) ==
    /\ pc = "idle"
    /\ conv' = Conv2d(Size(conv.weight[0]), Size(conv.weight), Size(conv.weight[0][0]),
                      conv.stride, conv.padding, conv.dilation, conv.has_bias, seed)
    /\ conv_a' = Conv2d(Size(conv_a.weight[0]), Size(conv_a.weight), 1, 1, 0, 1, TRUE, seed + 1)
    /\ conv_b' = Conv2d(Size(conv_b.weight[0]), Size(conv_b.weight), 1, 1, 0, 1, TRUE, seed + 2)
    /\ conv' # conv
    /\ memo' = IF memo = <<>> THEN memo
               ELSE <<[memo[1] EXCEPT !.since = @ \cup {"optimize"}]>>
    /\ UNCHANGED <<kernel_size, out_channels, pc, x, A, device, locals, ret, err, trace,
                   A_call, module_call>>

Step ==
    \/ AssertKernelSize
    \/ Project
    \/ Build
    \/ SoftmaxAndTransfer
    \/ TemporalConv
    \/ Aggregate
    \/ Return
    \/ Finish

Optimize == \E seed \in ParamSeeds : OptimizerStep(seed)

(***************************************************************************)
(* Spec: units built with the default temporal hyperparameters, called     *)
(* with every input of the families, on every device.                      *)
(***************************************************************************)
Init ==
    \E cout \in 1 .. MaxCout, K \in 1 .. MaxK, seed \in ParamSeeds :
        Construct(MaxCin, cout, K, DefaultTKernel, DefaultTStride, DefaultTPadding,
                  DefaultTDilation, TRUE, seed)

CallAny ==
    \E N \in 1 .. MaxN, T \in {1, MaxT}, V \in 1 .. MaxV, Ka \in 1 .. MaxK,
       as \in AdjSeeds, d \in Devices :
        \E xs \in [0 .. N - 1 -> SampleSeeds] : Call(N, T, V, Ka, xs, as, d)

Next == CallAny \/ Step \/ Optimize

Spec == Init /\ [][Next]_vars

(***************************************************************************)
(* SpecShape: units built with every temporal hyperparameter within the    *)
(* bounds, with and without bias, called with well-formed inputs on an     *)
(* accelerator.                                                            *)
(***************************************************************************)
InitShape ==
    \E cout \in 1 .. MaxCout, K \in {1, MaxK},
       tk \in 1 .. MaxTKernel, ts \in 1 .. MaxStride, tp \in 0 .. MaxPad,
       td \in 1 .. MaxDil, hasBias \in BOOLEAN :
        Construct(MaxCin, cout, K, tk, ts, tp, td, hasBias, 0)

CallWellFormed ==
    \E N \in {1, MaxN}, T \in 1 .. MaxT, V \in {1, MaxV} :
        Call(N, T, V, kernel_size, [n \in 0 .. N - 1 |-> IF n = 0 THEN 0 ELSE 1], 0, 0)

NextShape == CallWellFormed \/ Step

SpecShape == InitShape /\ [][NextShape]_vars

(***************************************************************************)
(* SpecHist: one unit whose caller keeps the outcome of one call and       *)
(* compares later calls with it, across other calls and optimizer steps.   *)
(***************************************************************************)
Outcome == <<pc, ret, err>>

\* The caller keeps what forward was given and what came back.
Remember ==
    /\ pc \in {"done", "raised"}
    /\ memo = <<>>
    /\ memo' = <<[module |-> module, x |-> x, A |-> A_call, device |-> device,
                  outcome |-> Outcome, since |-> {}]>>
    /\ UNCHANGED <<module, pc, x, A, device, locals, ret, err, trace, A_call, module_call>>

InitHist ==
    \E seed \in ParamSeeds :
        Construct(MaxCin, MaxCout, MaxK, DefaultTKernel, DefaultTStride, DefaultTPadding,
                  DefaultTDilation, TRUE, seed)

CallHist ==
    \E N \in 1 .. MaxN, Ka \in 1 .. MaxK, s \in SampleSeeds, d \in Devices :
        Call(N, 1, MaxV, Ka, [n \in 0 .. N - 1 |-> IF n = 0 THEN s ELSE 0], 0, d)

NextHist == CallHist \/ Step \/ Optimize \/ Remember

SpecHist == InitHist /\ [][NextHist]_vars

(***************************************************************************)
(* Properties.                                                             *)
(***************************************************************************)
Shape4(t) == <<Size(t), Size(t[0]), Size(t[0][0]), Size(t[0][0][0])>>
Shape3(t) == <<Size(t), Size(t[0]), Size(t[0][0])>>

\* The numerator of the output-length formula for the call's T_in.
LengthNumerator ==
    Size(x[0][0]) + 2 * conv.padding
    - conv.dilation * (Size(conv.weight[0][0]) - 1) - 1

\* C1: a call with well-formed inputs whose temporal hyperparameters admit an
\* output (the numerator of the length formula is not negative) returns, and
\* the Y it returns has shape (N, C_out, T_out, V) with
\* T_out = floor((T_in + 2*t_padding - t_dilation*(t_kernel_size-1) - 1) / t_stride) + 1
\* and V the node count of X.
C1_OutputShape ==
    /\ pc = "done" =>
          /\ LengthNumerator >= 0
          /\ Shape4(ret[1]) = <<Size(x), out_channels,
                                (LengthNumerator \div conv.stride) + 1,
                                Size(x[0][0][0])>>
    /\ pc = "raised" => LengthNumerator < 0

\* A call returned whose stride, padding, dilation and kernel width all
\* differ from the defaults, with a division that rounds down and T_out # T_in.
C1_Witness ==
    /\ pc = "done"
    /\ conv.stride >= 2 /\ conv.padding >= 1 /\ conv.dilation >= 2
    /\ Size(conv.weight[0][0]) >= 2
    /\ LengthNumerator % conv.stride # 0
    /\ Size(ret[1][0][0]) # Size(x[0][0])
    /\ Size(x) >= 2 /\ kernel_size >= 2 /\ out_channels >= 2

\* C2: while forward runs the caller's A keeps the value it had on entry, and
\* the second output of a call that returned is that value, shape and elements.
C2_AdjacencyUnchanged ==
    /\ pc # "idle" => A = A_call
    /\ pc = "done" => ret[2] = A_call /\ Shape3(ret[2]) = Shape3(A_call)

\* A call returned after computing M and A + M with K >= 2 and V >= 2.
C2_Witness ==
    /\ pc = "done"
    /\ Size(A_call) >= 2 /\ Size(A_call[0]) >= 2
    /\ AddBroadcast(A_call, M) # A_call
    /\ ret[2] = A_call

\* C3: a call whose A has a leading dimension other than kernel_size is, once
\* line 61 has run, raised with an AssertionError, having executed no tensor
\* operation (no projection, no learnable_matrix, no temporal convolution) and
\* returned nothing.
C3_KernelSizePrecondition ==
    (pc \notin {"idle", "assert"} /\ Size(A) # kernel_size) =>
        /\ pc = "raised" /\ err = "AssertionError"
        /\ trace = <<>>
        /\ concat_matrix = None /\ result = None /\ M = None /\ xc = None /\ y = None
        /\ ret = None

\* The assertion failed on a call with batch size >= 2.
C3_Witness ==
    /\ pc = "raised" /\ err = "AssertionError"
    /\ Size(A) # kernel_size
    /\ Size(x) >= 2

\* The temporal-convolution output F and the learned matrix M of the call, as
\* functions of the original x.
TemporalFeatures == ConvApply(conv, x)
LearnedMatrix == LearnableMatrix(conv_a, conv_b, out_channels, x, A_call)

\* C4: Y[n,c,t,w] is the sum over k in 0..K-1 and v in 0..V-1 of
\* F[n, k*C_out + c, t, v] * (A[k,v,w] + M[k,v,w]), F the temporal-convolution
\* output of K*C_out channels and M the learned matrix of the original x
\* (its one slice standing for every k when the batch size is 1).
C4_Aggregation ==
    pc = "done" =>
        LET V == Size(x[0][0][0])
            K == kernel_size
        IN  /\ xc = TemporalFeatures
            /\ Size(xc[0]) = K * out_channels
            /\ M = LearnedMatrix
            /\ \A n \in DOMAIN ret[1] : \A c \in DOMAIN ret[1][n] :
               \A tt \in DOMAIN ret[1][n][c] : \A w \in DOMAIN ret[1][n][c][tt] :
                  ret[1][n][c][tt][w] =
                      RatSumTo([i \in 0 .. K * V - 1 |->
                          RatMul(RatOfInt(xc[n][(i \div V) * out_channels + c][tt][i % V]),
                                 RatAdd(A_call[i \div V][i % V][w],
                                        M[IF Size(M) = 1 THEN 0 ELSE i \div V][i % V][w]))],
                          K * V)

\* A call returned with K, C_out, V and N >= 2 whose Y differs from the one the
\* other decomposition of the channel index gives.
C4_Witness ==
    /\ pc = "done"
    /\ kernel_size >= 2 /\ out_channels >= 2 /\ Size(x[0][0][0]) >= 2 /\ Size(x) >= 2
    /\ Size(conv.weight[0][0]) >= 2
    /\ ret[1] # Einsum(ViewKernelChannelMajor(xc, kernel_size), AddBroadcast(A_call, M))

\* C7: with K = 1 and V = 1, Y[n,c,t,0] = F[n,c,t,0] * (A[0,0,0] + M[0,0,0]),
\* and M[0,0,0], the softmax of the single-node affinity, is 1.
C7_SingleNode ==
    (pc = "done" /\ kernel_size = 1 /\ Size(x[0][0][0]) = 1) =>
        /\ xc = TemporalFeatures
        /\ M = LearnedMatrix
        /\ M[0][0][0] = <<1, 1>>
        /\ \A n \in DOMAIN ret[1] : \A c \in DOMAIN ret[1][n] :
           \A tt \in DOMAIN ret[1][n][c] :
              ret[1][n][c][tt][0] =
                  RatMul(RatOfInt(xc[n][c][tt][0]), RatAdd(A_call[0][0][0], M[0][0][0]))

\* A single-node call returned a Y that is neither zero nor F itself.
C7_Witness ==
    /\ pc = "done" /\ kernel_size = 1 /\ Size(x[0][0][0]) = 1
    /\ Size(x) >= 2 /\ out_channels >= 2
    /\ \E n \in DOMAIN ret[1] : \E c \in DOMAIN ret[1][n] : \E tt \in DOMAIN ret[1][n][c] :
          /\ ret[1][n][c][tt][0] # <<0, 1>>
          /\ ret[1][n][c][tt][0] # RatOfInt(xc[n][c][tt][0])

\* C5: for batch size 1 the entries of M along its last axis are positive and
\* sum to 1, for every leading index and every index of the other node axis.
C5_RowsSumToOne ==
    (pc = "conv" /\ Size(x) = 1) =>
        \A k \in DOMAIN M : \A v \in DOMAIN M[k] :
            /\ \A w \in DOMAIN M[k][v] : RatPositive(M[k][v][w])
            /\ RatSumTo(M[k][v], Size(M[k][v])) = <<1, 1>>

\* M of a batch of 1 over V >= 2 nodes is not uniform, and along the other
\* node axis its entries do not sum to 1.
C5_Witness ==
    /\ pc = "conv" /\ Size(x) = 1 /\ Size(M[0]) >= 2
    /\ \E v \in DOMAIN M[0] : M[0][v][0] # M[0][v][1]
    /\ \E w \in DOMAIN M[0][0] :
          RatSumTo([v \in DOMAIN M[0] |-> M[0][v][w]], Size(M[0])) # <<1, 1>>

\* The inputs of the call's shape that agree with x on batch element 0.
SameFirstSample ==
    LET N == Size(x)
        C == Size(x[0])
        T == Size(x[0][0])
        V == Size(x[0][0][0])
    IN  {x2 \in {[n \in 0 .. N - 1 |-> Sample(xs[n], C, T, V)] :
                    xs \in [0 .. N - 1 -> SampleSeeds]} : x2[0] = x[0]}

\* The (V x V) affinity matrix of batch element 0 alone.
AffinityOfSample0 ==
    LET x0 == [n \in {0} |-> x[0]]
    IN  ConcatMatrix(ProjectionA(conv_a, out_channels, x0),
                     ProjectionB(conv_b, out_channels, x0))[0]

\* C6: for batch size N >= 2 the pre-softmax matrix has K slices, each the
\* affinity matrix of sample 0; the slices of M are equal; and every input
\* that agrees with x on batch element 0 gives the same M.
C6_BroadcastFromSample0 ==
    (pc = "conv" /\ Size(x) >= 2) =>
        /\ Size(result) = kernel_size
        /\ \A k \in DOMAIN result : result[k] = AffinityOfSample0
        /\ \A k \in DOMAIN M : M[k] = M[0]
        /\ \A x2 \in SameFirstSample :
              LearnableMatrix(conv_a, conv_b, out_channels, x2, A) = M

\* A batch of 2 or more with K >= 2 whose second sample has another affinity
\* matrix than the first.
C6_Witness ==
    /\ pc = "conv" /\ Size(x) >= 2 /\ kernel_size >= 2 /\ Size(x[0][0][0]) >= 2
    /\ concat_matrix[1] # concat_matrix[0]
    /\ \E x2 \in SameFirstSample : x2 # x

\* C9: a call whose A has leading dimension K and whose x is in host memory
\* gets as far as the transfer of line 87 and no further: it raises a
\* RuntimeError there, having run the projections, the product and the
\* softmaxes once and neither the temporal convolution nor the aggregation,
\* and returns nothing.  Every finished call has either a pair or an exception.
C9_DeviceTransferFailure ==
    /\ (pc # "idle" /\ Size(A) = kernel_size /\ device = CpuDevice) =>
          /\ pc \in {"assert", "learnable_matrix", "build_result", "softmax", "raised"}
          /\ pc = "raised" =>
                /\ err = "RuntimeError"
                /\ trace = <<"conv_a", "conv_b", "matmul", "softmax", "softmax">>
                /\ M = None /\ xc = None /\ y = None
                /\ ret = None
    /\ pc = "done" => err = "" /\ Len(ret) = 2 /\ ret[1] = y /\ ret[1] # None
    /\ pc = "raised" => err # "" /\ ret = None

\* The transfer failed on a call that passed the assertion.
C9_Witness ==
    /\ pc = "raised" /\ err = "RuntimeError"
    /\ Size(A) = kernel_size /\ device = CpuDevice
    /\ result # None

\* The tensor R of the claim: R[.,v,w] = (1/(C_out*T)) * sum over c, t of
\* projA(x)[.,c,t,v] * projB(x)[.,c,t,w], of sample 0 in each of K slices when
\* N >= 2, of the one sample when N = 1.
PreSoftmaxR ==
    LET pa == ConvApply(conv_a, x)
        pb == ConvApply(conv_b, x)
        T  == Size(x[0][0])
        V  == Size(x[0][0][0])
        len == out_channels * T
        slices == IF Size(x) >= 2 THEN kernel_size ELSE 1
    IN  [k \in 0 .. slices - 1 |-> [v \in 0 .. V - 1 |-> [w \in 0 .. V - 1 |->
            Rat(SumTo([i \in 0 .. len - 1 |->
                    pa[0][i \div T][i % T][v] * pb[0][i \div T][i % T][w]], len),
                len)]]]

\* C10: M is the softmax along the last axis of R, and after line 86 result
\* still holds R.
C10_RowSoftmaxDiscarded ==
    pc = "conv" =>
        LET R == PreSoftmaxR
        IN  /\ result = R
            /\ M = SoftmaxDim2(R)

\* The row softmax would have changed R, and M is not the softmax along the
\* last axis of the row-softmaxed tensor.
C10_Witness ==
    /\ pc = "conv" /\ Size(result[0]) >= 2
    /\ SoftmaxDim1(result) # result
    /\ SoftmaxDim2(SoftmaxDim1(result)) # M
    /\ SoftmaxDim2(SoftmaxDim1(result)) # SoftmaxDim2(result)

\* What forward was given: the unit's attributes and parameters, x, A, device.
CallInputs == [module |-> module, x |-> x, A |-> A_call, device |-> device]

\* C8: forward leaves kernel_size, out_channels and the parameters of the
\* three convolutions as they were on entry, and a finished call given what a
\* remembered call was given (the same x, A, device and parameter values) has
\* the remembered outcome, whatever ran in between.
C8_Stateless ==
    /\ pc # "idle" => module = module_call
    /\ (pc \in {"done", "raised"} /\ memo # <<>>) =>
          ([module |-> memo[1].module, x |-> memo[1].x, A |-> memo[1].A,
            device |-> memo[1].device] = CallInputs
           => Outcome = memo[1].outcome)

\* A call repeats a remembered, returned call after the optimizer changed the
\* parameters and changed them back.
C8_Witness ==
    /\ pc = "done" /\ memo # <<>>
    /\ memo[1].since = {"call", "optimize"}
    /\ memo[1].x = x /\ memo[1].A = A_call /\ memo[1].device = device
    /\ memo[1].module = module
    /\ memo[1].outcome = Outcome
    /\ Size(x) >= 2
    /\ trace = <<"conv_a", "conv_b", "matmul", "softmax", "softmax", "cuda", "conv",
                 "add", "einsum">>

====
